---- MODULE Spec2Model ----
(***************************************************************************)
(* Model of the wtachau/website repository: the docs Header component,     *)
(* the SocialCTA, ShipInHours and Terms components, and the behaviour the  *)
(* repository's documentation pages state for function retries and run     *)
(* priority.                                                               *)
(*                                                                         *)
(* Conventions                                                             *)
(*  - A JavaScript value that may be undefined is a record: Undefined, or  *)
(*    Str(s) for the string s.                                             *)
(*  - A number with a fractional part is an exact rational Rat(n, d).      *)
(*  - clsx(...) is modelled by the sequence of the arguments it keeps, in  *)
(*    order (the real function joins them with single spaces).             *)
(*  - A URL literal is written as its sequence of tokens, split at the     *)
(*    first "?" and the first "#"; Join gives back the literal.            *)
(***************************************************************************)
EXTENDS Integers, Sequences, FiniteSets, TLC

VARIABLES
    scrollY,                    \* window scroll position read by useScroll()
    mobileNavIsOpen,            \* useMobileNavigationStore().isOpen
    isInsideMobileNavigation,   \* useIsInsideMobileNavigation()
    className,                  \* the Header's className prop
    signinURL,                  \* process.env.NEXT_PUBLIC_SIGNIN_URL
    signupURL,                  \* process.env.NEXT_PUBLIC_SIGNUP_URL
    header,                     \* what the Header currently shows
    socialCTA,                  \* what SocialCTA rendered (or NotRendered)
    shipInHours,                \* what ShipInHours rendered (or NotRendered)
    terms,                      \* what Terms rendered (or NotRendered)
    staticProps,                \* results of the calls of getStaticProps
    retries,                    \* the function's configured retries
    stepIdx,                    \* index of the step the run is at
    attempt,                    \* attempts of the current step that errored
    attempts,                   \* per step: how many times it was attempted
    stepStatus,                 \* per step: pending / succeeded / failed
    runStatus,                  \* running / completed / failed
    now,                        \* queue clock, epoch seconds
    queue,                      \* the function's run queue, ascending score
    waiting,                    \* runs not yet enqueued
    served,                     \* runs taken from the queue, in order
    servePage,                  \* what the serve docs page shows (or NotRendered)
    actUser,                    \* activation-email: data.user.id of the trigger
    actPc,                      \* activation-email: where the run is
    actClock,                   \* activation-email: hours since the trigger
    actWaitStart,               \* activation-email: when waitForEvent began
    actPosts,                   \* app/post.created events received so far
    actResult,                  \* activation-email: the value of postCreated
    actSent,                    \* activation-email: templates sent, in order
    cartNow,                    \* product-added-to-cart: clock, in hours
    cartRuns,                   \* product-added-to-cart: the runs, by run ID
    cartPurchases,              \* cart/purchased events received so far,
                                \* each with the number of runs started before
    cartEmails                  \* cart reminder emails sent, in order

uiVars == <<scrollY, mobileNavIsOpen, isInsideMobileNavigation, className,
            signinURL, signupURL, header, socialCTA, shipInHours, terms,
            staticProps>>
retryVars == <<retries, stepIdx, attempt, attempts, stepStatus, runStatus>>
queueVars == <<now, queue, waiting, served>>
actVars == <<actUser, actPc, actClock, actWaitStart, actPosts, actResult,
             actSent>>
cartVars == <<cartNow, cartRuns, cartPurchases, cartEmails>>
flowVars == <<actVars, cartVars>>
docVars == <<servePage, flowVars>>
vars == <<uiVars, retryVars, queueVars, docVars>>

-----------------------------------------------------------------------------
(* JavaScript values *)

Undefined == [defined |-> FALSE]
Str(s) == [defined |-> TRUE, val |-> s]

\* `${v}`: string conversion inside a template literal
TemplateString(v) == IF v.defined THEN v.val ELSE "undefined"

\* cond && s, as an argument of clsx: false is a falsy argument
And(cond, s) == IF cond THEN Str(s) ELSE Undefined

\* clsx keeps its truthy arguments, in order
Clsx(args) ==
    LET kept == SelectSeq(args, LAMBDA a : a.defined /\ a.val # "")
    IN  [i \in 1..Len(kept) |-> kept[i].val]

Has(classes, c) == \E i \in 1..Len(classes) : classes[i] = c

-----------------------------------------------------------------------------
(* Exact rationals *)

RECURSIVE Gcd(_, _)
Gcd(a, b) == IF b = 0 THEN a ELSE Gcd(b, a % b)
Abs(a) == IF a < 0 THEN 0 - a ELSE a

\* n / d in lowest terms, with a positive denominator
Rat(n, d) ==
    LET g == Gcd(Abs(n), Abs(d))
        sg == IF d < 0 THEN 0 - 1 ELSE 1
    IN  [n |-> sg * (n \div g), d |-> sg * (d \div g)]
RatEq(a, b)  == a.n * b.d = b.n * a.d
RatLeq(a, b) == a.n * b.d <= b.n * a.d
RatLt(a, b)  == a.n * b.d < b.n * a.d
RatAdd(a, b) == Rat(a.n * b.d + b.n * a.d, a.d * b.d)
RatSub(a, b) == Rat(a.n * b.d - b.n * a.d, a.d * b.d)
RatMul(a, b) == Rat(a.n * b.n, a.d * b.d)

-----------------------------------------------------------------------------
(* Header: scroll-driven opacities *)

InputRange == <<0, 72>>
LightRange == <<Rat(5, 10), Rat(9, 10)>>
DarkRange  == <<Rat(2, 10), Rat(8, 10)>>

Clamp(lo, hi, v) == IF v < lo THEN lo ELSE IF v > hi THEN hi ELSE v

\* progress of v between from and to
Progress(from, to, v) == Rat(v - from, to - from)

UseTransformUnclamped(v, input, output) ==
    RatAdd(output[1],
           RatMul(RatSub(output[2], output[1]),
                  Progress(input[1], input[2], v)))
\* useTransform(value, input, output): clamps to the input range, then mixes
UseTransform(v, input, output) ==
    LET c == Clamp(input[1], input[2], v)
    IN  RatAdd(output[1],
               RatMul(RatSub(output[2], output[1]),
                      Progress(input[1], input[2], c)))

BgOpacityLightSwapped(y) == UseTransform(y, InputRange, DarkRange)
BgOpacityLight(y) == UseTransform(y, InputRange, LightRange)
BgOpacityDarkReversed(y) ==
    UseTransform(y, InputRange, <<DarkRange[2], DarkRange[1]>>)
BgOpacityDark(y)  == UseTransform(y, InputRange, DarkRange)

HeaderStyle(y) == [light |-> BgOpacityLight(y), dark |-> BgOpacityDark(y)]

-----------------------------------------------------------------------------
(* Header: class names and links *)

RootBase ==
    "fixed inset-x-0 top-0 z-50 flex h-14 items-center justify-between gap-12 px-4 transition sm:px-6 lg:z-30 lg:px-8"
RootBlur == "backdrop-blur-sm dark:backdrop-blur lg:left-72 xl:left-80"
SolidBg == "bg-white dark:bg-slate-900"
VarBg ==
    "bg-white/[var(--bg-opacity-light)] dark:bg-slate-950/[var(--bg-opacity-dark)]"
DividerBase == "absolute inset-x-0 top-full h-px transition"
DividerColour == "bg-slate-900/7.5 dark:bg-white/7.5"
SignUpRef == "?ref=docs-header"

RootClassAlwaysBlur(cn, inside) ==
    Clsx(<<cn,
           Str(RootBase),
           Str(RootBlur),
           IF inside THEN Str(SolidBg) ELSE Str(VarBg)>>)
RootClassWithoutProp(cn, inside) ==
    Clsx(<<Str(RootBase),
           And(~inside, RootBlur),
           IF inside THEN Str(SolidBg) ELSE Str(VarBg)>>)
RootClass(cn, inside) ==
    Clsx(<<cn,
           Str(RootBase),
           And(~inside, RootBlur),
           IF inside THEN Str(SolidBg) ELSE Str(VarBg)>>)

DividerClassOpenOnly(inside, open) ==
    Clsx(<<Str(DividerBase), And(~open, DividerColour)>>)
DividerClass(inside, open) ==
    Clsx(<<Str(DividerBase), And(inside \/ ~open, DividerColour)>>)

SignInHrefAsTemplate(signin) == Str(TemplateString(signin))
SignInHref(signin) == signin
SignUpHrefNoRef(signup) == Str(TemplateString(signup))
SignUpHref(signup) == Str(TemplateString(signup) \o SignUpRef)

\* one evaluation of the Header function component
HeaderRender(cn, open, inside, y, signin, signup) ==
    [className  |-> RootClass(cn, inside),
     style      |-> HeaderStyle(y),
     divider    |-> DividerClass(inside, open),
     signInHref |-> SignInHref(signin),
     signUpHref |-> SignUpHref(signup)]

-----------------------------------------------------------------------------
(* URL literals *)

RECURSIVE Join(_)
Join(tokens) == IF tokens = <<>> THEN "" ELSE Head(tokens) \o Join(Tail(tokens))

\* index of the first token equal to sep, 0 when there is none
IndexOf(tokens, sep) ==
    IF \E i \in 1..Len(tokens) : tokens[i] = sep
    THEN CHOOSE i \in 1..Len(tokens) :
             tokens[i] = sep /\ \A j \in 1..(i - 1) : tokens[j] # sep
    ELSE 0

\* the part after "#"
UrlHash(url) ==
    LET h == IndexOf(url, "#")
    IN  IF h = 0 THEN "" ELSE Join(SubSeq(url, h + 1, Len(url)))

\* the part between "?" and "#"
UrlSearch(url) ==
    LET q == IndexOf(url, "?")
        h == IndexOf(url, "#")
    IN  IF q = 0 \/ (h # 0 /\ h < q) THEN ""
        ELSE Join(SubSeq(url, q + 1, IF h = 0 THEN Len(url) ELSE h - 1))

\* the part before "?" and "#"
UrlPathname(url) ==
    LET q == IndexOf(url, "?")
        h == IndexOf(url, "#")
        e == IF q = 0 THEN h ELSE IF h = 0 THEN q ELSE IF q < h THEN q ELSE h
    IN  Join(SubSeq(url, 1, IF e = 0 THEN Len(url) ELSE e - 1))

-----------------------------------------------------------------------------
(* SocialCTA *)

SocialCTARender ==
    [rendered |-> TRUE,
     links |-> <<[panel |-> "Join our Discord community",
                  label |-> "Join the community",
                  href  |-> <<"/docs", "?", "ref=homepage-hero">>],
                 [panel |-> "Open Source",
                  label |-> "View Project",
                  href  |-> <<"/docs", "?", "ref=homepage-hero">>]>>]

-----------------------------------------------------------------------------
(* Terms page *)

GetStaticProps ==
    [props |-> [designVersion |-> "2",
                meta |-> [title |-> "Terms",
                          description |-> "Inngest's terms and conditions"]]]

TermsRenderPrivacy ==
    [rendered |-> TRUE,
     component |-> "LegalPage",
     iframeURL |-> "https://www.iubenda.com/privacy-policy/26885259"]
TermsRender ==
    [rendered |-> TRUE,
     component |-> "LegalPage",
     iframeURL |-> "https://www.iubenda.com/terms-and-conditions/26885259"]

-----------------------------------------------------------------------------
(* ShipInHours *)

HomeRef == "ref=homepage-fits-your-workflow"

ShipInHoursLinksNoAnchor ==
    <<<<"/docs/sdk/serve", "?", HomeRef, "#", "framework-nextjs">>,
      <<"/docs/sdk/serve", "?", HomeRef, "#", "framework-express">>,
      <<"/docs/sdk/serve", "?", HomeRef, "#", "framework-redwood">>,
      <<"/docs/deploy/vercel", "?", HomeRef>>,
      <<"/docs/deploy/netlify", "?", HomeRef>>,
      <<"/docs/deploy/cloudflare", "?", HomeRef>>>>
ShipInHoursLinks ==
    <<<<"/docs/sdk/serve", "?", HomeRef, "#", "framework-next-js">>,
      <<"/docs/sdk/serve", "?", HomeRef, "#", "framework-express">>,
      <<"/docs/sdk/serve", "?", HomeRef, "#", "framework-redwood">>,
      <<"/docs/deploy/vercel", "?", HomeRef>>,
      <<"/docs/deploy/netlify", "?", HomeRef>>,
      <<"/docs/deploy/cloudflare", "?", HomeRef>>>>

ShipInHoursImages ==
    <<[caption |-> "With Inngest",
       src |-> "/assets/with-inngest.svg", alt |-> "With Inngest"],
      [caption |-> "Without Inngest",
       src |-> "/assets/without-inngest.svg", alt |-> "With Inngest"]>>

ShipInHoursRender ==
    [rendered |-> TRUE, links |-> ShipInHoursLinks, images |-> ShipInHoursImages]

\* serve.mdx: the anchors of the list of framework-specific bindings
ServeBindingsList ==
    <<"framework-astro", "framework-aws-lambda", "bun-serve",
      "framework-cloudflare", "framework-digital-ocean-functions",
      "framework-express", "framework-fastify", "framework-fresh-deno",
      "framework-google-cloud-functions", "framework-h3", "framework-koa",
      "framework-next-js", "framework-redwood", "framework-remix",
      "framework-svelte-kit", "custom-frameworks">>

-----------------------------------------------------------------------------
(* Serve docs page: the list of bindings and the framework sections *)

\* the words of the headings, in lower case
LowerCaseWords ==
    [Framework |-> "framework", Astro |-> "astro", AWS |-> "aws",
     Lambda |-> "lambda", Bun |-> "bun", Cloudflare |-> "cloudflare",
     Digital |-> "digital", Ocean |-> "ocean", Functions |-> "functions",
     Express |-> "express", Fastify |-> "fastify", Fresh |-> "fresh",
     Deno |-> "deno", Google |-> "google", Cloud |-> "cloud", H3 |-> "h3",
     Koa |-> "koa", Next |-> "next", Nuxt |-> "nuxt", Redwood |-> "redwood",
     Remix |-> "remix", Svelte |-> "svelte", Kit |-> "kit"]
LowerCase(w) == IF w \in DOMAIN LowerCaseWords THEN LowerCaseWords[w] ELSE w

RECURSIVE JoinWith(_, _)
JoinWith(words, sep) ==
    IF Len(words) = 0 THEN ""
    ELSE IF Len(words) = 1 THEN Head(words)
    ELSE Head(words) \o sep \o JoinWith(Tail(words), sep)

\* the anchor of a heading: its words in lower case, joined by "-"
Slugify(words) == JoinWith([i \in 1..Len(words) |-> LowerCase(words[i])], "-")

\* serve.mdx: the second-level headings between "Signing key" and
\* "Reference", as their words (split at punctuation, spaces and capitals)
ServeSections ==
    <<<<"Framework", "Astro">>,
      <<"Framework", "AWS", "Lambda">>,
      <<"Bun", "serve">>,
      <<"Framework", "Cloudflare">>,
      <<"Framework", "Digital", "Ocean", "Functions">>,
      <<"Framework", "Express">>,
      <<"Framework", "Fastify">>,
      <<"Framework", "Fresh", "Deno">>,
      <<"Framework", "Google", "Cloud", "Functions">>,
      <<"Framework", "H3">>,
      <<"Framework", "Koa">>,
      <<"Framework", "Next", "js">>,
      <<"Framework", "Nuxt">>,
      <<"Framework", "Redwood">>,
      <<"Framework", "Remix">>,
      <<"Framework", "Svelte", "Kit">>>>

ServePageRender ==
    [rendered |-> TRUE,
     list |-> ServeBindingsList,
     anchors |-> [i \in 1..Len(ServeSections) |-> Slugify(ServeSections[i])]]

-----------------------------------------------------------------------------
(* Bounds and input sets of the UI *)

Overscroll == 3
MaxCalls == 2

ScrollPositions == (InputRange[1] - Overscroll)..(InputRange[2] + Overscroll)
ClassNames == {Undefined, Str("lg:hidden")}
SigninValues == {Undefined, Str("https://app.inngest.com/sign-in")}
SignupValues == {Undefined, Str("https://app.inngest.com/sign-up")}

NotRendered == [rendered |-> FALSE]

-----------------------------------------------------------------------------
(* UI: initial state and actions *)

InitUI ==
    /\ scrollY = 0
    /\ mobileNavIsOpen = FALSE
    /\ isInsideMobileNavigation \in BOOLEAN
    /\ className \in ClassNames
    /\ signinURL \in SigninValues
    /\ signupURL \in SignupValues
    /\ header = HeaderRender(className, mobileNavIsOpen,
                             isInsideMobileNavigation, scrollY,
                             signinURL, signupURL)
    /\ socialCTA = NotRendered
    /\ shipInHours = NotRendered
    /\ terms = NotRendered
    /\ staticProps = <<>>
    /\ servePage = NotRendered

ScrollWithoutSubscription(y) ==
    /\ y # scrollY
    /\ scrollY' = y
    /\ UNCHANGED <<header, mobileNavIsOpen, isInsideMobileNavigation,
                   className, signinURL, signupURL, socialCTA, shipInHours,
                   terms, staticProps>>
    /\ UNCHANGED <<retryVars, queueVars, docVars>>

\* a scroll event: the two motion values follow scrollY and update the style
\* of the element in place; the component function is not run again
Scroll(y) ==
    /\ y # scrollY
    /\ scrollY' = y
    /\ header' = [header EXCEPT !.style = HeaderStyle(y)]
    /\ UNCHANGED <<mobileNavIsOpen, isInsideMobileNavigation, className,
                   signinURL, signupURL, socialCTA, shipInHours, terms,
                   staticProps>>
    /\ UNCHANGED <<retryVars, queueVars, docVars>>

SetMobileNavNewMotionValues(open) ==
    /\ mobileNavIsOpen' = open
    /\ header' = HeaderRender(className, open, isInsideMobileNavigation,
                              0, signinURL, signupURL)
    /\ UNCHANGED <<scrollY, isInsideMobileNavigation, className, signinURL,
                   signupURL, socialCTA, shipInHours, terms, staticProps>>
    /\ UNCHANGED <<retryVars, queueVars, docVars>>

\* the mobile navigation store changes: the subscribed Header renders again
SetMobileNav(open) ==
    /\ mobileNavIsOpen' = open
    /\ header' = HeaderRender(className, open, isInsideMobileNavigation,
                              scrollY, signinURL, signupURL)
    /\ UNCHANGED <<scrollY, isInsideMobileNavigation, className, signinURL,
                   signupURL, socialCTA, shipInHours, terms, staticProps>>
    /\ UNCHANGED <<retryVars, queueVars, docVars>>

OpenMobileNav == ~mobileNavIsOpen /\ SetMobileNav(TRUE)
CloseMobileNav == mobileNavIsOpen /\ SetMobileNav(FALSE)
ToggleMobileNav == SetMobileNav(~mobileNavIsOpen)

RenderHeaderClosesNav(cn) ==
    /\ className' = cn
    /\ mobileNavIsOpen' = FALSE
    /\ header' = HeaderRender(cn, FALSE, isInsideMobileNavigation,
                              scrollY, signinURL, signupURL)
    /\ UNCHANGED <<scrollY, isInsideMobileNavigation, signinURL, signupURL,
                   socialCTA, shipInHours, terms, staticProps>>
    /\ UNCHANGED <<retryVars, queueVars, docVars>>

\* the parent renders the Header with the className cn
RenderHeader(cn) ==
    /\ className' = cn
    /\ header' = HeaderRender(cn, mobileNavIsOpen, isInsideMobileNavigation,
                              scrollY, signinURL, signupURL)
    /\ UNCHANGED <<scrollY, mobileNavIsOpen, isInsideMobileNavigation,
                   signinURL, signupURL, socialCTA, shipInHours, terms,
                   staticProps>>
    /\ UNCHANGED <<retryVars, queueVars, docVars>>

RenderSocialCTA ==
    /\ socialCTA' = SocialCTARender
    /\ UNCHANGED <<scrollY, mobileNavIsOpen, isInsideMobileNavigation,
                   className, signinURL, signupURL, header, shipInHours,
                   terms, staticProps>>
    /\ UNCHANGED <<retryVars, queueVars, docVars>>

RenderShipInHours ==
    /\ shipInHours' = ShipInHoursRender
    /\ UNCHANGED <<scrollY, mobileNavIsOpen, isInsideMobileNavigation,
                   className, signinURL, signupURL, header, socialCTA,
                   terms, staticProps>>
    /\ UNCHANGED <<retryVars, queueVars, docVars>>

RenderTerms ==
    /\ terms' = TermsRender
    /\ UNCHANGED <<scrollY, mobileNavIsOpen, isInsideMobileNavigation,
                   className, signinURL, signupURL, header, socialCTA,
                   shipInHours, staticProps>>
    /\ UNCHANGED <<retryVars, queueVars, docVars>>

RenderServePage ==
    /\ servePage' = ServePageRender
    /\ UNCHANGED <<uiVars, retryVars, queueVars, flowVars>>

CallGetStaticProps ==
    /\ Len(staticProps) < MaxCalls
    /\ staticProps' = Append(staticProps, GetStaticProps)
    /\ UNCHANGED <<scrollY, mobileNavIsOpen, isInsideMobileNavigation,
                   className, signinURL, signupURL, header, socialCTA,
                   shipInHours, terms>>
    /\ UNCHANGED <<retryVars, queueVars, docVars>>

-----------------------------------------------------------------------------
(* Error handling page: retries of a function's steps *)

DefaultRetries == 4
MaxRetries == 6
NumSteps == 2

Steps == 1..NumSteps
NoRetriesOption == [set |-> FALSE]
RetriesOption(n) == [set |-> TRUE, n |-> n]
RetriesOptions == {NoRetriesOption} \cup {RetriesOption(n) : n \in 0..MaxRetries}

\* the number of retries in force: the configured one, 4 by default
EffectiveRetries(opt) == IF opt.set THEN opt.n ELSE DefaultRetries

\* after an attempt that errored, with `attempt` earlier errors of this step:
\* is another attempt made?
MayRetryOnceMore(opt, att) == att <= EffectiveRetries(opt)
MayRetry(opt, att) == att < EffectiveRetries(opt)

InitRetry ==
    /\ retries \in RetriesOptions
    /\ stepIdx = 1
    /\ attempt = 0
    /\ attempts = [s \in Steps |-> 0]
    /\ stepStatus = [s \in Steps |-> "pending"]
    /\ runStatus = "running"

\* the run moves past step stepIdx, which has just ended
Advance ==
    /\ attempt' = 0
    /\ IF stepIdx < NumSteps
       THEN /\ stepIdx' = stepIdx + 1
            /\ runStatus' = runStatus
       ELSE /\ stepIdx' = stepIdx
            /\ runStatus' = "completed"

\* an attempt of the current step succeeds: the step completes
AttemptSucceeds ==
    /\ runStatus = "running"
    /\ stepStatus[stepIdx] = "pending"
    /\ attempts' = [attempts EXCEPT ![stepIdx] = @ + 1]
    /\ stepStatus' = [stepStatus EXCEPT ![stepIdx] = "succeeded"]
    /\ Advance
    /\ UNCHANGED <<retries, uiVars, queueVars, docVars>>

\* the step ends as failed; the StepError is caught by the function (handled)
\* or makes the function fail
FailStep(handled) ==
    /\ stepStatus' = [stepStatus EXCEPT ![stepIdx] = "failed"]
    /\ IF handled
       THEN Advance
       ELSE /\ runStatus' = "failed"
            /\ attempt' = attempt
            /\ stepIdx' = stepIdx

\* an attempt of the current step throws an error: the step is retried, or
\* fails when its retries are exhausted
AttemptErrors(handled) ==
    /\ runStatus = "running"
    /\ stepStatus[stepIdx] = "pending"
    /\ attempts' = [attempts EXCEPT ![stepIdx] = @ + 1]
    /\ IF MayRetry(retries, attempt)
       THEN /\ attempt' = attempt + 1
            /\ UNCHANGED <<stepIdx, stepStatus, runStatus>>
       ELSE FailStep(handled)
    /\ UNCHANGED <<retries, uiVars, queueVars, docVars>>

\* an attempt throws a NonRetriableError: the remaining retries are bypassed
AttemptNonRetriable(handled) ==
    /\ runStatus = "running"
    /\ stepStatus[stepIdx] = "pending"
    /\ attempts' = [attempts EXCEPT ![stepIdx] = @ + 1]
    /\ FailStep(handled)
    /\ UNCHANGED <<retries, uiVars, queueVars, docVars>>

NextRetry ==
    \/ AttemptSucceeds
    \/ \E handled \in BOOLEAN : AttemptErrors(handled)
    \/ \E handled \in BOOLEAN : AttemptNonRetriable(handled)

-----------------------------------------------------------------------------
(* Run priority page: the queue of a function's runs *)

PriorityMax == 600
StartTime == 150
TickSeconds == 310
MaxTicks == 2

Invalid == [valid |-> FALSE]
Result(n) == [valid |-> TRUE, n |-> n]
\* what a priority.run expression may evaluate to
ExpressionResults == {Invalid, Result(0), Result(120), Result(-120),
                      Result(700), Result(-700)}

\* the factor of a run: an invalid expression counts as 0, and the value is
\* clipped to the account's range
Factor(r) ==
    IF ~r.valid THEN 0
    ELSE IF r.n > PriorityMax THEN PriorityMax
    ELSE IF r.n < 0 - PriorityMax THEN 0 - PriorityMax
    ELSE r.n

\* the score of a run enqueued at time t (epoch seconds) with the factor f
ScoreAdded(t, f) == t + f
Score(t, f) == t - f

Job(id, t, f) == [id |-> id, t |-> t, factor |-> f, score |-> Score(t, f)]

\* the positions at which job may be inserted in q, keeping ascending score
InsertPositions(q, job) ==
    {i \in 1..(Len(q) + 1) :
        /\ \A j \in 1..(i - 1) : q[j].score <= job.score
        /\ \A j \in i..Len(q) : job.score <= q[j].score}

InsertAt(q, i, job) ==
    SubSeq(q, 1, i - 1) \o <<job>> \o SubSeq(q, i, Len(q))

InitialQueue == <<Job("A", 10, 0), Job("B", 40, 0), Job("C", 130, 0)>>
NewJobs == {"X", "Y"}

InitQueue ==
    /\ now = StartTime
    /\ queue = InitialQueue
    /\ waiting = NewJobs
    /\ served = <<>>

\* an event creates the run id: its job is inserted with its score
Enqueue(id, r) ==
    /\ id \in waiting
    /\ LET job == Job(id, now, Factor(r))
       IN  \E i \in InsertPositions(queue, job) :
               queue' = InsertAt(queue, i, job)
    /\ waiting' = waiting \ {id}
    /\ UNCHANGED <<now, served, uiVars, retryVars, docVars>>

\* the run with the lowest score is worked on, once the time its score
\* stands for has come: the queue is scored by the time that jobs should
\* run, so a negative factor delays the run's jobs
Serve ==
    /\ queue # <<>>
    /\ Head(queue).score <= now
    /\ served' = Append(served, Head(queue))
    /\ queue' = Tail(queue)
    /\ UNCHANGED <<now, waiting, uiVars, retryVars, docVars>>

Tick ==
    /\ now < StartTime + MaxTicks * TickSeconds
    /\ now' = now + TickSeconds
    /\ UNCHANGED <<queue, waiting, served, uiVars, retryVars, docVars>>

NextQueue ==
    \/ \E id \in NewJobs, r \in ExpressionResults : Enqueue(id, r)
    \/ Serve
    \/ Tick

-----------------------------------------------------------------------------
(* Multi-step docs: the activation-email function *)

WaitTimeoutHours == 24
ActTickHours == 12
MaxActClock == 48
MaxPosts == 2

Users == {"u1", "u2"}

\* match: "data.user.id": the event's user is the trigger's user
PostMatchesAnyUser(u) == TRUE
PostMatches(u) == u = actUser

ActWaiting == actPc = "wait-for-post-creation"
ActDeadline == actWaitStart + WaitTimeoutHours
\* the timeout of waitForEvent has been reached and is to be handled next
ActTimeoutDue == ActWaiting /\ actClock >= ActDeadline

InitAct ==
    /\ actUser \in Users
    /\ actPc = "send-welcome-email"
    /\ actClock = 0
    /\ actWaitStart = 0
    /\ actPosts = <<>>
    /\ actResult = "pending"
    /\ actSent = <<>>

\* step.run("send-welcome-email") completes; waitForEvent begins
WelcomeSent ==
    /\ actPc = "send-welcome-email"
    /\ actSent' = Append(actSent, "welcome")
    /\ actPc' = "wait-for-post-creation"
    /\ actWaitStart' = actClock
    /\ UNCHANGED <<actUser, actClock, actPosts, actResult>>
    /\ UNCHANGED <<uiVars, retryVars, queueVars, servePage, cartVars>>

\* step.run("send-welcome-email") fails for good: the function fails
WelcomeFails ==
    /\ actPc = "send-welcome-email"
    /\ actPc' = "failed"
    /\ UNCHANGED <<actUser, actClock, actWaitStart, actPosts, actResult,
                   actSent>>
    /\ UNCHANGED <<uiVars, retryVars, queueVars, servePage, cartVars>>

\* an app/post.created event of user u is received; a waiting run whose
\* user matches resumes with the event and, postCreated being set, ends
PostCreated(u) ==
    /\ Len(actPosts) < MaxPosts
    /\ actPc \notin {"completed", "failed"}
    /\ ~ActTimeoutDue
    /\ actPosts' = Append(actPosts,
                          [user |-> u, at |-> actClock, phase |-> actPc])
    /\ IF ActWaiting /\ PostMatches(u)
       THEN /\ actResult' = "event"
            /\ actPc' = "completed"
       ELSE UNCHANGED <<actResult, actPc>>
    /\ UNCHANGED <<actUser, actClock, actWaitStart, actSent>>
    /\ UNCHANGED <<uiVars, retryVars, queueVars, servePage, cartVars>>

\* 24 hours passed without a matching event: waitForEvent returns null
WaitTimesOut ==
    /\ ActTimeoutDue
    /\ actResult' = "null"
    /\ actPc' = "send-reminder-email"
    /\ UNCHANGED <<actUser, actClock, actWaitStart, actPosts, actSent>>
    /\ UNCHANGED <<uiVars, retryVars, queueVars, servePage, cartVars>>

\* step.run("send-reminder-email") completes; the function ends
ReminderSent ==
    /\ actPc = "send-reminder-email"
    /\ actSent' = Append(actSent, "reminder")
    /\ actPc' = "completed"
    /\ UNCHANGED <<actUser, actClock, actWaitStart, actPosts, actResult>>
    /\ UNCHANGED <<uiVars, retryVars, queueVars, servePage, cartVars>>

ReminderFails ==
    /\ actPc = "send-reminder-email"
    /\ actPc' = "failed"
    /\ UNCHANGED <<actUser, actClock, actWaitStart, actPosts, actResult,
                   actSent>>
    /\ UNCHANGED <<uiVars, retryVars, queueVars, servePage, cartVars>>

\* time passes, but not beyond the timeout of a waiting run
ActTick ==
    /\ actClock < MaxActClock
    /\ ~ActTimeoutDue
    /\ actClock' = IF ActWaiting /\ actClock + ActTickHours > ActDeadline
                   THEN ActDeadline
                   ELSE actClock + ActTickHours
    /\ UNCHANGED <<actUser, actPc, actWaitStart, actPosts, actResult,
                   actSent>>
    /\ UNCHANGED <<uiVars, retryVars, queueVars, servePage, cartVars>>

NextActivation ==
    \/ WelcomeSent
    \/ WelcomeFails
    \/ \E u \in Users : PostCreated(u)
    \/ WaitTimesOut
    \/ ReminderSent
    \/ ReminderFails
    \/ ActTick

-----------------------------------------------------------------------------
(* Lost-customers pattern: the product-added-to-cart function *)

CancelTimeoutHours == 24
PurchaseTimeoutHours == 24
CartTickHours == 12
MaxCartClock == 60
MaxAdds == 3
MaxPurchases == 1

Carts == {"c1", "c2"}

RunIds == 1..Len(cartRuns)
Paused(i) == cartRuns[i].status = "wait-for-purchase"
Reminding(i) == cartRuns[i].status = "send-reminder"
\* the timeout of run i's waitForEvent has been reached
PurchaseTimeoutDue(i) ==
    Paused(i) /\ cartNow >= cartRuns[i].start + PurchaseTimeoutHours
\* a timeout or the reminder step that follows it is to be handled next
AnyTimeoutDue == \E i \in RunIds : PurchaseTimeoutDue(i) \/ Reminding(i)

\* cancelOn: a cart/product.added event of the cart c cancels run i when it
\* is running or paused, has the same cart_id, and started less than 24
\* hours ago
CancelledBy(i, c) ==
    /\ Paused(i) \/ Reminding(i)
    /\ cartRuns[i].cart = c
    /\ cartNow < cartRuns[i].start + CancelTimeoutHours

InitCart ==
    /\ cartNow = 0
    /\ cartRuns = <<>>
    /\ cartPurchases = <<>>
    /\ cartEmails = <<>>

\* a cart/product.added event of the cart c: the runs it cancels end, and a
\* new run starts and pauses in waitForEvent
ProductAdded(c) ==
    /\ Len(cartRuns) < MaxAdds
    /\ ~AnyTimeoutDue
    /\ LET kept == [i \in RunIds |->
                       IF CancelledBy(i, c)
                       THEN [cartRuns[i] EXCEPT !.status = "cancelled"]
                       ELSE cartRuns[i]]
       IN  cartRuns' = Append(kept, [cart |-> c, start |-> cartNow,
                                     status |-> "wait-for-purchase"])
    /\ UNCHANGED <<cartNow, cartPurchases, cartEmails>>
    /\ UNCHANGED <<uiVars, retryVars, queueVars, servePage, actVars>>

\* a cart/purchased event of the cart c: the paused runs of that cart resume
\* with the event and return
Purchased(c) ==
    /\ Len(cartPurchases) < MaxPurchases
    /\ ~AnyTimeoutDue
    /\ cartPurchases' = Append(cartPurchases,
                               [cart |-> c, at |-> cartNow,
                                runs |-> Len(cartRuns)])
    /\ cartRuns' = [i \in RunIds |->
                       IF Paused(i) /\ cartRuns[i].cart = c
                       THEN [cartRuns[i] EXCEPT !.status = "purchased"]
                       ELSE cartRuns[i]]
    /\ UNCHANGED <<cartNow, cartEmails>>
    /\ UNCHANGED <<uiVars, retryVars, queueVars, servePage, actVars>>

\* run i waited 24 hours without a purchase: waitForEvent returns null
PurchaseTimesOut(i) ==
    /\ PurchaseTimeoutDue(i)
    /\ cartRuns' = [cartRuns EXCEPT ![i].status = "send-reminder"]
    /\ UNCHANGED <<cartNow, cartPurchases, cartEmails>>
    /\ UNCHANGED <<uiVars, retryVars, queueVars, servePage, actVars>>

\* step.run("send-reminder") of run i: the email goes out, the run ends
SendReminder(i) ==
    /\ Reminding(i)
    /\ cartEmails' = Append(cartEmails, [cart |-> cartRuns[i].cart,
                                         run |-> i, at |-> cartNow])
    /\ cartRuns' = [cartRuns EXCEPT ![i].status = "completed"]
    /\ UNCHANGED <<cartNow, cartPurchases>>
    /\ UNCHANGED <<uiVars, retryVars, queueVars, servePage, actVars>>

\* time passes, up to the next timeout of a paused run
CartTick ==
    /\ cartNow < MaxCartClock
    /\ ~AnyTimeoutDue
    /\ LET deadlines == {cartRuns[i].start + PurchaseTimeoutHours :
                            i \in {j \in RunIds : Paused(j)}}
           before == {d \in deadlines : d < cartNow + CartTickHours}
       IN  cartNow' = IF before = {} THEN cartNow + CartTickHours
                      ELSE CHOOSE d \in before : \A e \in before : d <= e
    /\ UNCHANGED <<cartRuns, cartPurchases, cartEmails>>
    /\ UNCHANGED <<uiVars, retryVars, queueVars, servePage, actVars>>

NextCart ==
    \/ \E c \in Carts : ProductAdded(c)
    \/ \E c \in Carts : Purchased(c)
    \/ \E i \in RunIds : PurchaseTimesOut(i)
    \/ \E i \in RunIds : SendReminder(i)
    \/ CartTick

-----------------------------------------------------------------------------
(* Specifications *)

InitFlows == InitAct /\ InitCart
InitAll == InitUI /\ InitRetry /\ InitQueue /\ InitFlows

\* the docs Header under scroll events, store changes and renders
Init == InitAll /\ ~retries.set /\ actUser = "u1"
Next ==
    \/ \E y \in ScrollPositions : Scroll(y)
    \/ OpenMobileNav
    \/ CloseMobileNav
    \/ ToggleMobileNav
    \/ \E cn \in ClassNames : RenderHeader(cn)
Spec == Init /\ [][Next]_vars

\* the prop-less components and the Terms page
NextPages ==
    \/ RenderSocialCTA
    \/ RenderShipInHours
    \/ RenderTerms
    \/ RenderServePage
    \/ CallGetStaticProps
SpecPages == Init /\ [][NextPages]_vars

\* one run of a function, as the error handling page describes it
InitDocs == InitAll /\ ~isInsideMobileNavigation /\ ~className.defined
                    /\ ~signinURL.defined /\ ~signupURL.defined
InitRetries == InitDocs /\ actUser = "u1"
SpecRetry == InitRetries /\ [][NextRetry]_vars

\* the run queue of one function, as the run priority page describes it
InitPriority == InitRetries /\ ~retries.set
SpecQueue == InitPriority /\ [][NextQueue]_vars

\* one run of the activation-email function of the multi-step docs
InitActivation == InitDocs /\ ~retries.set
SpecActivation == InitActivation /\ [][NextActivation]_vars

\* the runs of product-added-to-cart of the lost-customers pattern
SpecCart == InitPriority /\ [][NextCart]_vars

-----------------------------------------------------------------------------
(* Properties of the Header *)

\* C1: for every scroll position y with 0 <= y <= 72 the Header's light-mode
\* opacity is 0.5 + 0.4 * (y / 72) and its dark-mode opacity is
\* 0.2 + 0.6 * (y / 72); at y = 0 they are 0.5 and 0.2, at y = 72 they are
\* 0.9 and 0.8.
C1_LinearOpacity ==
    (0 <= scrollY /\ scrollY <= 72) =>
        /\ RatEq(header.style.light,
                 RatAdd(Rat(1, 2), RatMul(Rat(2, 5), Rat(scrollY, 72))))
        /\ RatEq(header.style.dark,
                 RatAdd(Rat(1, 5), RatMul(Rat(3, 5), Rat(scrollY, 72))))
        /\ (scrollY = 0 => /\ RatEq(header.style.light, Rat(1, 2))
                           /\ RatEq(header.style.dark, Rat(1, 5)))
        /\ (scrollY = 72 => /\ RatEq(header.style.light, Rat(9, 10))
                            /\ RatEq(header.style.dark, Rat(4, 5)))

\* the header scrolled half way: 0.7 and 0.5
C1_Witness ==
    /\ scrollY = 36
    /\ RatEq(header.style.light, Rat(7, 10))
    /\ RatEq(header.style.dark, Rat(1, 2))

\* C2: the divider line carries its colour classes if and only if the Header
\* is inside the mobile navigation or the mobile navigation is closed; of the
\* four combinations of (isInsideMobileNavigation, mobileNavIsOpen) only
\* (outside, open) has no colour.
C2_DividerColour ==
    /\ Has(header.divider, DividerColour)
         <=> (isInsideMobileNavigation \/ ~mobileNavIsOpen)
    /\ Has(header.divider, DividerBase)
    /\ {c \in BOOLEAN \X BOOLEAN :
            ~Has(DividerClass(c[1], c[2]), DividerColour)} = {<<FALSE, TRUE>>}

\* outside the mobile navigation, which was opened: the colour is gone
C2_Witness ==
    /\ ~isInsideMobileNavigation
    /\ mobileNavIsOpen
    /\ header.divider = <<DividerBase>>

\* C3: the Sign In href is the value of NEXT_PUBLIC_SIGNIN_URL, the Sign Up
\* href is the value of NEXT_PUBLIC_SIGNUP_URL followed by
\* "?ref=docs-header", at every scroll position and in either state of the
\* mobile navigation.
C3_AccountLinks ==
    /\ header.signInHref = signinURL
    /\ signupURL.defined =>
         /\ header.signUpHref.defined
         /\ header.signUpHref.val = signupURL.val \o "?ref=docs-header"

\* both variables set, the page scrolled and the mobile navigation open
C3_Witness ==
    /\ signinURL.defined
    /\ signupURL.defined
    /\ scrollY > 0
    /\ mobileNavIsOpen
    /\ header.signInHref = Str("https://app.inngest.com/sign-in")
    /\ header.signUpHref =
           Str("https://app.inngest.com/sign-up?ref=docs-header")

\* C6: after any sequence of scroll events, store changes and renders, what
\* the Header shows is what one render from the current inputs gives, so two
\* histories that end in the same inputs show the same output.
C6_Stateless ==
    header = [className  |-> RootClass(className, isInsideMobileNavigation),
              style      |-> [light |-> BgOpacityLight(scrollY),
                              dark  |-> BgOpacityDark(scrollY)],
              divider    |-> DividerClass(isInsideMobileNavigation,
                                          mobileNavIsOpen),
              signInHref |-> SignInHref(signinURL),
              signUpHref |-> SignUpHref(signupURL)]

\* every input that an action can change has left its initial value
C6_Witness ==
    /\ scrollY = 50
    /\ mobileNavIsOpen
    /\ className.defined
    /\ ~isInsideMobileNavigation
    /\ header.className = <<"lg:hidden", RootBase, RootBlur, VarBg>>
    /\ header.divider = <<DividerBase>>

\* C15: the Header has exactly one of its two backgrounds: inside the mobile
\* navigation the solid one and none of the blur and offset classes, outside
\* the variable-opacity one together with the blur and offset classes,
\* whether the mobile navigation is open or closed.
C15_OneBackground ==
    IF isInsideMobileNavigation
    THEN /\ Has(header.className, SolidBg)
         /\ ~Has(header.className, VarBg)
         /\ ~Has(header.className, RootBlur)
    ELSE /\ Has(header.className, VarBg)
         /\ Has(header.className, RootBlur)
         /\ ~Has(header.className, SolidBg)

\* inside the mobile navigation, which is open: the solid background
C15_Witness ==
    /\ isInsideMobileNavigation
    /\ mobileNavIsOpen
    /\ ~className.defined
    /\ header.className = <<RootBase, SolidBg>>

\* C16: at every scroll position the light-mode opacity is within [0.5, 0.9]
\* and the dark-mode opacity within [0.2, 0.8]; every y >= 72 gives exactly
\* 0.9 and 0.8 and every y <= 0 gives exactly 0.5 and 0.2.
C16_Clamped ==
    /\ RatLeq(Rat(1, 2), header.style.light)
    /\ RatLeq(header.style.light, Rat(9, 10))
    /\ RatLeq(Rat(1, 5), header.style.dark)
    /\ RatLeq(header.style.dark, Rat(4, 5))
    /\ scrollY >= 72 => /\ RatEq(header.style.light, Rat(9, 10))
                        /\ RatEq(header.style.dark, Rat(4, 5))
    /\ scrollY <= 0 => /\ RatEq(header.style.light, Rat(1, 2))
                       /\ RatEq(header.style.dark, Rat(1, 5))

\* scrolled beyond 72: the opacities stay at 0.9 and 0.8
C16_Witness ==
    /\ scrollY > 72
    /\ RatEq(header.style.light, Rat(9, 10))
    /\ RatEq(header.style.dark, Rat(4, 5))

\* C17: when the scroll position goes from y1 to y2 >= y1 neither opacity
\* decreases, and both increase strictly when 0 <= y1 < y2 <= 72; at every
\* scroll position the dark-mode opacity is strictly below the light-mode one.
C17_Monotone ==
    /\ [](RatLt(header.style.dark, header.style.light))
    /\ [][scrollY <= scrollY' =>
            /\ RatLeq(header.style.light, header'.style.light)
            /\ RatLeq(header.style.dark, header'.style.dark)
            /\ (0 <= scrollY /\ scrollY < scrollY' /\ scrollY' <= 72) =>
                   /\ RatLt(header.style.light, header'.style.light)
                   /\ RatLt(header.style.dark, header'.style.dark)]_vars

\* fully scrolled, where the two opacities are closest: 0.8 under 0.9
C17_Witness ==
    /\ scrollY = 72
    /\ RatEq(header.style.dark, Rat(4, 5))
    /\ RatLt(header.style.dark, header.style.light)

\* C18: a step that changes the scroll position changes nothing of what the
\* Header shows but the two opacities, and a step that opens or closes the
\* mobile navigation leaves both opacities (and the links) as they were.
C18_DisjointOutputs ==
    [][/\ scrollY' # scrollY =>
            [header' EXCEPT !.style = header.style] = header
       /\ mobileNavIsOpen' # mobileNavIsOpen =>
            /\ header'.style = header.style
            /\ header'.signInHref = header.signInHref
            /\ header'.signUpHref = header.signUpHref]_vars

\* scrolled, then the mobile navigation opened: the opacities are those of
\* the scroll position and the divider lost its colour
C18_Witness ==
    /\ scrollY = 18
    /\ mobileNavIsOpen
    /\ ~isInsideMobileNavigation
    /\ RatEq(header.style.light, Rat(3, 5))
    /\ header.divider = <<DividerBase>>

\* C19: a render of the Header changes neither the mobile navigation store's
\* isOpen nor the scroll position.
C19_RenderOnlyReads ==
    [][(\E cn \in ClassNames : RenderHeader(cn)) =>
            /\ mobileNavIsOpen' = mobileNavIsOpen
            /\ scrollY' = scrollY]_vars

\* rendered with a className while scrolled and with the navigation open
C19_Witness ==
    /\ className = Str("lg:hidden")
    /\ mobileNavIsOpen
    /\ scrollY = 60
    /\ Has(header.className, "lg:hidden")

\* C20: the Header's root element always has the className it was given and
\* the fixed base classes, and both opacity variables are set on it, also
\* inside the mobile navigation.
C20_RootKeepsClasses ==
    /\ className.defined => Has(header.className, className.val)
    /\ Has(header.className, RootBase)
    /\ DOMAIN header.style = {"light", "dark"}
    /\ RatLt(Rat(0, 1), header.style.light)
    /\ RatLt(Rat(0, 1), header.style.dark)
    /\ RatLeq(header.style.light, Rat(1, 1))
    /\ RatLeq(header.style.dark, Rat(1, 1))

\* inside the mobile navigation, with a className, scrolled
C20_Witness ==
    /\ isInsideMobileNavigation
    /\ className.defined
    /\ scrollY = 20
    /\ header.className = <<"lg:hidden", RootBase, SolidBg>>
    /\ DOMAIN header.style = {"light", "dark"}

\* the strings the template literal of the Sign Up href can start with
SignUpStems == {TemplateString(v) : v \in SignupValues}

\* s is one of the stems followed by suffix
EndsWith(s, suffix) ==
    /\ Len(s) >= Len(suffix)
    /\ \E stem \in SignUpStems : s = stem \o suffix

\* C21: with the URL environment variables unset, the Sign In button gets
\* no href (undefined) while the Sign Up button gets the defined, non-empty
\* href "undefined?ref=docs-header"; for every value of
\* NEXT_PUBLIC_SIGNUP_URL, set or unset, the Sign Up href ends with
\* "?ref=docs-header".
C21_UnsetLinksDegrade ==
    /\ ~signinURL.defined => ~header.signInHref.defined
    /\ ~signupURL.defined =>
         /\ header.signUpHref.defined
         /\ header.signUpHref.val # ""
         /\ header.signUpHref.val = "undefined?ref=docs-header"
    /\ header.signUpHref.defined
    /\ EndsWith(header.signUpHref.val, "?ref=docs-header")

\* neither variable set, the Header rendered with a className after the
\* page was scrolled and the mobile navigation opened
C21_Witness ==
    /\ ~signinURL.defined
    /\ ~signupURL.defined
    /\ className.defined
    /\ scrollY > 0
    /\ mobileNavIsOpen
    /\ header.signInHref = Undefined
    /\ header.signUpHref = Str("undefined?ref=docs-header")

-----------------------------------------------------------------------------
(* Properties of the static components *)

DiscordDestinations == {"/discord", "https://www.inngest.com/discord"}
GithubDestinations == {"https://github.com/inngest/inngest"}

\* C4: in SocialCTA the "Join the community" link goes to the Discord invite,
\* the "View Project" link goes to the GitHub repository, and the two links
\* have different destinations.
C4_LinksReachServices ==
    socialCTA.rendered =>
        /\ socialCTA.links[1].label = "Join the community"
        /\ socialCTA.links[2].label = "View Project"
        /\ Join(socialCTA.links[1].href) \in DiscordDestinations
        /\ Join(socialCTA.links[2].href) \in GithubDestinations
        /\ Join(socialCTA.links[1].href) # Join(socialCTA.links[2].href)

\* C7: Terms renders LegalPage with the iubenda terms URL, and every call of
\* getStaticProps returns the same record: designVersion "2", title "Terms",
\* description "Inngest's terms and conditions".
C7_TermsPage ==
    /\ terms.rendered =>
         /\ terms.component = "LegalPage"
         /\ terms.iframeURL =
                "https://www.iubenda.com/terms-and-conditions/26885259"
    /\ \A i \in 1..Len(staticProps) :
         /\ staticProps[i] = staticProps[1]
         /\ staticProps[i].props.designVersion = "2"
         /\ staticProps[i].props.meta.title = "Terms"
         /\ staticProps[i].props.meta.description =
                "Inngest's terms and conditions"
         /\ DOMAIN staticProps[i] = {"props"}
         /\ DOMAIN staticProps[i].props = {"designVersion", "meta"}

\* the page rendered and getStaticProps called twice
C7_Witness ==
    /\ terms.rendered
    /\ terms.component = "LegalPage"
    /\ Len(staticProps) >= 2

\* C8: all six links of ShipInHours carry ref=homepage-fits-your-workflow;
\* the platform links go to /docs/deploy/vercel, /docs/deploy/netlify and
\* /docs/deploy/cloudflare; the framework links go to /docs/sdk/serve with
\* the anchors #framework-next-js, #framework-express, #framework-redwood,
\* each of which is in the serve page's list of bindings.
C8_ShipInHoursLinks ==
    shipInHours.rendered =>
        LET l == shipInHours.links
        IN  /\ Len(l) = 6
            /\ \A i \in 1..6 :
                   UrlSearch(l[i]) = "ref=homepage-fits-your-workflow"
            /\ <<UrlPathname(l[4]), UrlPathname(l[5]), UrlPathname(l[6])>> =
                   <<"/docs/deploy/vercel", "/docs/deploy/netlify",
                     "/docs/deploy/cloudflare">>
            /\ \A i \in 4..6 : UrlHash(l[i]) = ""
            /\ \A i \in 1..3 : UrlPathname(l[i]) = "/docs/sdk/serve"
            /\ <<UrlHash(l[1]), UrlHash(l[2]), UrlHash(l[3])>> =
                   <<"framework-next-js", "framework-express",
                     "framework-redwood">>
            /\ \A i \in 1..3 :
                   \E k \in 1..Len(ServeBindingsList) :
                       ServeBindingsList[k] = UrlHash(l[i])

\* ShipInHours rendered, with its Next.js link as written in the source
C8_Witness ==
    /\ shipInHours.rendered
    /\ Join(shipInHours.links[1]) =
           "/docs/sdk/serve?ref=homepage-fits-your-workflow#framework-next-js"
    /\ Join(shipInHours.links[6]) =
           "/docs/deploy/cloudflare?ref=homepage-fits-your-workflow"

\* C22: in ShipInHours each comparison image's alt text names the column of
\* the caption above it: with-inngest.svg under "With Inngest" has the alt
\* "With Inngest", without-inngest.svg under "Without Inngest" has the alt
\* "Without Inngest".
C22_AltMatchesCaption ==
    shipInHours.rendered =>
        LET im == shipInHours.images
        IN  /\ Len(im) = 2
            /\ \A i \in 1..2 : im[i].alt = im[i].caption
            /\ <<im[1].src, im[1].alt>> =
                   <<"/assets/with-inngest.svg", "With Inngest">>
            /\ <<im[2].src, im[2].alt>> =
                   <<"/assets/without-inngest.svg", "Without Inngest">>

-----------------------------------------------------------------------------
(* Properties of the documented retries *)

RetryLimit == IF retries.set THEN retries.n + 1 ELSE 5

\* C9: a step of a function configured with retries = N is attempted at most
\* N + 1 times in one run (by default 5 times, 6 times for N = 5, exactly
\* once for N = 0); a step that succeeded or failed is never attempted
\* again, and a step whose attempts are used up is failed.
C9_RetriesExcludeFirstAttempt ==
    /\ [](\A s \in Steps :
            /\ attempts[s] <= RetryLimit
            /\ (retries = RetriesOption(5) => attempts[s] <= 6)
            /\ (retries = RetriesOption(0) /\ stepStatus[s] # "pending"
                    => attempts[s] = 1)
            /\ (stepStatus[s] = "pending" => attempts[s] < RetryLimit)
            /\ (stepStatus[s] # "pending" => attempts[s] >= 1))
    /\ [][\A s \in Steps :
            stepStatus[s] # "pending" =>
                /\ attempts'[s] = attempts[s]
                /\ stepStatus'[s] = stepStatus[s]]_vars

\* retries = 5: the first step failed at its sixth attempt, the run went on
C9_Witness ==
    /\ retries = RetriesOption(5)
    /\ stepStatus[1] = "failed"
    /\ attempts[1] = 6
    /\ stepIdx = 2
    /\ attempts[2] >= 1

-----------------------------------------------------------------------------
(* Properties of the documented run queue *)

QueueIds == [i \in 1..Len(queue) |-> queue[i].id]
QueueScores == [i \in 1..Len(queue) |-> queue[i].score]
Enqueued(id, t, f) ==
    \E i \in 1..Len(queue) :
        queue[i].id = id /\ queue[i].t = t /\ queue[i].factor = f

\* C10: with A, B, C queued at scores 10, 40, 130, enqueuing X at time 150
\* with factor 0 and Y at time 150 with factor 120 gives Y the score 30 and
\* X the score 150, and the queue order A, Y, B, C, X.
C10_WorkedExample ==
    (served = <<>> /\ Enqueued("X", 150, 0) /\ Enqueued("Y", 150, 120)) =>
        /\ QueueIds = <<"A", "Y", "B", "C", "X">>
        /\ QueueScores = <<10, 30, 40, 130, 150>>

\* both runs of the example are in the queue and nothing was served
C10_Witness ==
    /\ served = <<>>
    /\ Enqueued("X", 150, 0)
    /\ Enqueued("Y", 150, 120)
    /\ Len(queue) = 5

\* C11: whatever factors two runs of the function evaluate to, a run
\* enqueued more than 600 seconds before another run is ahead of it in the
\* queue.
C11_OldWorkNotStarved ==
    \A i \in 1..Len(queue) : \A j \in 1..Len(queue) :
        queue[i].t + 600 < queue[j].t => i < j

-----------------------------------------------------------------------------
(* Properties of the serve docs page *)

Range(seq) == {seq[i] : i \in 1..Len(seq)}

\* C14: on the serve docs page every entry of the list of framework-specific
\* bindings links to the anchor of a section of the page, and every framework
\* section of the page has an entry in the list.
C14_ListMatchesSections ==
    servePage.rendered =>
        /\ \A a \in Range(servePage.list) : a \in Range(servePage.anchors)
        /\ \A a \in Range(servePage.anchors) : a \in Range(servePage.list)

-----------------------------------------------------------------------------
(* Properties of the documented event coordination *)

\* an app/post.created event of the trigger's user that was received while
\* the run waited, before the 24 hours were over
MatchingPostInTime ==
    \E i \in 1..Len(actPosts) :
        /\ actPosts[i].user = actUser
        /\ actPosts[i].phase = "wait-for-post-creation"
        /\ actPosts[i].at < actWaitStart + 24

\* C12: a run of activation-email sends the welcome email first, waits at
\* most 24 hours for an app/post.created event of the same user, and sends
\* the reminder email exactly when no such event came in time (postCreated
\* is null), never before the welcome email.
C12_ReminderIffNoPost ==
    /\ actSent # <<>> => actSent[1] = "welcome"
    /\ Has(actSent, "reminder") => actSent = <<"welcome", "reminder">>
    /\ actPc = "wait-for-post-creation" => actClock - actWaitStart <= 24
    /\ actPc = "send-reminder-email" =>
           actResult = "null" /\ ~MatchingPostInTime
    /\ actPc = "completed" =>
           /\ Has(actSent, "reminder") <=> ~MatchingPostInTime
           /\ Has(actSent, "reminder") <=> actResult = "null"
    /\ Has(actSent, "reminder") => actClock >= actWaitStart + 24

\* the reminder went out although another user's post arrived during the wait
C12_Witness ==
    /\ actPc = "completed"
    /\ actSent = <<"welcome", "reminder">>
    /\ actResult = "null"
    /\ \E i \in 1..Len(actPosts) :
           /\ actPosts[i].user # actUser
           /\ actPosts[i].phase = "wait-for-post-creation"

EmailsOf(c) == {k \in 1..Len(cartEmails) : cartEmails[k].cart = c}

\* C13: product-added-to-cart runs once per cart_id: after a further
\* cart/product.added event of a cart no older run of that cart is running or
\* paused, and a cart gets at most one reminder email, sent 24 hours after
\* a product was added and only if no cart/purchased event of the cart
\* arrived in those 24 hours.
C13_OneReminderPerCart ==
    /\ \A i \in RunIds : \A j \in RunIds :
           (i < j /\ cartRuns[i].cart = cartRuns[j].cart) =>
               ~(Paused(i) \/ Reminding(i))
    /\ \A c \in Carts : Cardinality(EmailsOf(c)) <= 1
    /\ \A k \in 1..Len(cartEmails) :
           LET e == cartEmails[k]
           IN  /\ cartRuns[e.run].cart = e.cart
               /\ e.at = cartRuns[e.run].start + 24
               /\ ~\E p \in 1..Len(cartPurchases) :
                      /\ cartPurchases[p].cart = e.cart
                      /\ e.run <= cartPurchases[p].runs
                      /\ cartPurchases[p].at < e.at

====
